---- MODULE Spec2Model ----
(***************************************************************************)
(* Model of the command-line workflows of jobs/build-charms/charms.py and  *)
(* jobs/sync-upstream/sync.py.  One behaviour is one command invocation:   *)
(* Init draws the command and its inputs, every action is one step of the  *)
(* command's code, every external process call is recorded in `calls` and  *)
(* draws its exit status nondeterministically.                             *)
(***************************************************************************)
EXTENDS Integers, Sequences, FiniteSets, TLC

\* ---------------------------------------------------------------- bounds
MaxLayers == 2      \* longest layer manifest of pull-layers
MaxRetries == 2     \* largest --retries value
MaxFiles == 2       \* most files the resource builder leaves in out_path
MaxEntries == 2     \* most entries in the manifests of a sync command
MaxCpu == 2         \* largest os.cpu_count()
MaxBuild == 2       \* most entries in the manifests of a build
MaxRuns == 2        \* most invocations of promote in a row

\* ------------------------------------------------------ program constants
DefaultRetries == 15
MaxAttachRetries == 10

\* ----------------------------------------------------------------- state
VARIABLES
    cmd,            \* the command that was invoked
    pc,             \* position in the command's code
    outcome,        \* "running", "returned", or the exception that ended the run
    calls,          \* external process calls issued and files read by
                    \* charms.py so far, in order (an immediate repetition of
                    \* the same call is recorded once)
    idx,            \* index of the manifest entry being processed
    layer_list,     \* parsed layer manifest
    retries,        \* _pull_layers: retries argument
    num_runs,       \* _pull_layers: num_runs
    charm_entity,   \* _resource: charm_entity argument
    resource_spec,  \* parsed resource spec: entity -> file names that have a key
    files,          \* _resource: glob("{out_path}/*")
    fidx,           \* _resource: index of the file being processed
    is_attached,    \* _resource: is_attached
    is_attached_count, \* _resource: is_attached_count
    attach_n,       \* attach calls issued for the file being processed
    dry_run,        \* --dry-run
    charm_list,     \* parsed charm manifest
    cpu_count,      \* forks: os.cpu_count()
    repos_to_process, \* forks: repos_to_process, as indices into the manifest
    gr,             \* forks: state of each submitted __run_git future: the
                    \* commands that succeeded, the result, the command that failed
    seen,           \* forks: futures as_completed has yielded
    logged,         \* forks: futures whose failure was logged
    pending,        \* forks: how the with-block is being left
    ancillary_list, \* parsed ancillary manifest
    filter_by_tag,  \* --filter-by-tag values
    git_rev_master, \* _cut_stable_release: git_rev_master
    git_rev_stable, \* _cut_stable_release: git_rev_stable
    bugfix,         \* tag-stable: --bugfix
    k8s_version,    \* tag-stable: --k8s-version
    bundle_rev,     \* tag-stable: --bundle-revision
    tag,            \* _tag_stable_forks: tag
    tagops,         \* the git tag and git push commands issued, with their tag
    environ,        \* os.environ: the path variables that are set
    bundle_list,    \* parsed bundle manifest
    built,          \* the files the resource builder script produces
    lst,            \* build: the manifest being processed, "charm" or "bundle"
    pidx,           \* _push: index of the image being pulled
    pushes,         \* the charm push commands issued, with their resource_args
    from_channel,   \* _promote: from_channel
    to_channel,     \* _promote: to_channel
    invocations,    \* how many times in a row the command line is invoked
    run,            \* the invocation that is running
    store,          \* the charm store: channel -> manifest -> entry -> release
    charm_id,       \* _promote: charm_id["id"]["Id"]
    resources,      \* _promote: resources, <<>> when the query gave none
    resources_args, \* _promote: resources_args
    released        \* the charm release commands that succeeded, in order

pullVars == <<retries, num_runs>>
resVars == <<charm_entity, files, fidx, is_attached, is_attached_count, attach_n>>
forkVars == <<repos_to_process, gr, seen, logged, pending>>
syncVars == <<git_rev_master, git_rev_stable, tag, tagops>>
buildVars == <<lst, pidx, pushes>>
promVars == <<run, store, charm_id, resources, resources_args, released>>
inputs == <<cmd, dry_run, filter_by_tag, layer_list, charm_list, ancillary_list,
            bundle_list, resource_spec, built, cpu_count, environ, from_channel,
            to_channel, invocations, bugfix, k8s_version, bundle_rev>>

notPull == <<resVars, forkVars, syncVars, buildVars, promVars>>
notRes == <<pullVars, forkVars, syncVars, buildVars, promVars>>
notFork == <<pullVars, resVars, syncVars, buildVars, promVars>>
notSync == <<pullVars, resVars, repos_to_process, gr, seen, pending, buildVars,
             promVars>>
notBuild == <<pullVars, resVars, forkVars, syncVars, promVars>>
notProm == <<pullVars, resVars, forkVars, syncVars>>

vars == <<pc, outcome, calls, idx, inputs, pullVars, resVars, forkVars, syncVars,
          buildVars, promVars>>

\* -------------------------------------------------------------- helpers
\* an external call: the command, the list and index of the entry (or file) it
\* is issued for, and its exit status
Call(op, l, i, rc) == [op |-> op, l |-> l, i |-> i, f |-> 0, rc |-> rc]

\* a call issued for file f of entry i
FileCall(op, l, i, f, rc) == [op |-> op, l |-> l, i |-> i, f |-> f, rc |-> rc]

Log(c) == IF calls # <<>> /\ calls[Len(calls)] = c THEN calls ELSE Append(calls, c)

\* a manifest entry: the single key of the mapping and the fields of its value
\* (same_repo: the path of the upstream URL is the downstream repository;
\* master, stable: the commits origin/master and origin/stable of the
\* downstream repository point to; resources: the resources of the built
\* artifact's metadata.yaml; published: the resources the charm store lists
\* for the entity at the source channel)
Repo ==
    [name |-> "repo", has_tags |-> FALSE, tags |-> {}, needs_stable |-> TRUE,
     needs_tagging |-> TRUE, same_repo |-> FALSE, builder |-> FALSE,
     master |-> "m1", stable |-> "s1", resources |-> <<>>, published |-> <<>>]

Entry(n) == [Repo EXCEPT !.name = n]

SeqsUpTo(S, n) == UNION {[1..k -> S] : k \in 0..n}

\* the lists of a command: one sequence over each set of Ss, at most n entries in all
RECURSIVE Lists(_, _)
Lists(Ss, n) ==
    IF Ss = <<>> THEN {<<>>}
    ELSE UNION {{<<l>> \o rest : rest \in Lists(Tail(Ss), n - Len(l))} :
                l \in SeqsUpTo(Head(Ss), n)}

LayerNames == {"layer:index", "layer:a", "interface:b", "charm:c"}

\* ltype, name = layer_name.split(":")
ltype(layer_name) ==
    CASE layer_name \in {"layer:index", "layer:a"} -> "layer"
      [] layer_name = "interface:b" -> "interface"
      [] OTHER -> "charm"

Injective(s) == \A i, j \in DOMAIN s : s[i] = s[j] => i = j

\* exit status of an external process: 0, 1, or another non-zero code
ExitCodes == {0, 1, 2}

Ended == outcome # "running"

\* raise SystemExit / an uncaught exception: the command ends
Raise(what) == pc' = "end" /\ outcome' = what

\* the function returns to its caller: the command line, or build
Return(fn) ==
    CASE cmd = "build" /\ fn = "_pull_layers" ->
            pc' = "b_charms" /\ UNCHANGED outcome
      [] cmd = "build" /\ fn = "_push" ->
            pc' = (IF lst = "charm" THEN "b_resource" ELSE "bb_done")
            /\ UNCHANGED outcome
      [] cmd = "build" /\ fn = "_resource" ->
            pc' = "b_done" /\ UNCHANGED outcome
      [] cmd = "build" /\ fn = "_promote" /\ lst = "charm" ->
            pc' = "bb_start" /\ UNCHANGED outcome
      [] cmd = "promote" /\ fn = "_promote" /\ run < invocations ->
            pc' = "pr_again" /\ UNCHANGED outcome
      [] OTHER -> Raise("returned")

At(p) == pc = p /\ outcome = "running"

\* an external command that raises sh.ErrorReturnCode when it fails
ShContinues(at, op, l, then) ==
    /\ At(at)
    /\ \E rc \in ExitCodes :
         /\ calls' = Log(Call(op, l, idx, rc))
         /\ pc' = then
         /\ UNCHANGED outcome

Sh(at, op, l, then) ==
    /\ At(at)
    /\ \E rc \in ExitCodes :
         /\ calls' = Log(Call(op, l, idx, rc))
         /\ IF rc = 0 THEN pc' = then /\ UNCHANGED outcome ELSE Raise("ErrorReturnCode")

\* CharmEnv.__init__: Path(os.environ.get(...)) of an unset variable raises
\* TypeError, turned into SystemExit
EnvVars == {"CHARM_BUILD_DIR", "CHARM_LAYERS_DIR", "CHARM_INTERFACES_DIR", "WORKSPACE"}

CharmEnvUnchecked == TRUE

CharmEnv == EnvVars \subseteq environ

\* yaml.safe_load(Path(...).read_text()): a file of the command line is read
Read(file) == Call("read-" \o file, "file", 0, 0)

\* ------------------------------------------------------------ _pull_layers
\* charm_env = CharmEnv(); layer_list = yaml.safe_load(...); num_runs = 0
PullStart ==
    /\ At("pl_env")
    /\ IF CharmEnv
       THEN pc' = "pl_loop" /\ calls' = Log(Read("layer-list")) /\ UNCHANGED outcome
       ELSE Raise("SystemExit:env") /\ UNCHANGED calls
    /\ num_runs' = 0
    /\ idx' = 1
    /\ UNCHANGED <<inputs, retries, notPull>>

\* for layer_map in layer_list: ... if layer_name == "layer:index": continue
PullNext ==
    /\ At("pl_loop")
    /\ IF idx > Len(layer_list)
       THEN Return("_pull_layers") /\ UNCHANGED idx
       ELSE IF layer_list[idx].name = "layer:index"
            THEN idx' = idx + 1 /\ UNCHANGED <<pc, outcome>>
            ELSE pc' = "pl_try" /\ UNCHANGED <<idx, outcome>>
    /\ UNCHANGED <<calls, inputs, pullVars, notPull>>

\* try: num_runs += 1; download()
PullTry ==
    /\ At("pl_try")
    /\ num_runs' = num_runs + 1
    /\ \E rc \in ExitCodes :
         /\ calls' = Log(Call("pull-source", "layer", idx, rc))
         /\ CASE rc = 0 -> pc' = "pl_checkout" /\ UNCHANGED outcome
              [] rc = 1 -> pc' = "pl_except" /\ UNCHANGED outcome
              [] OTHER  -> Raise("ErrorReturnCode")
    /\ UNCHANGED <<idx, inputs, retries, notPull>>

\* except sh.ErrorReturnCode_1: if num_runs == retries: raise SystemExit
PullExceptAtLeast(n, r) == n >= r

PullExcept(n, r) == n = r

PullCatch ==
    /\ At("pl_except")
    /\ IF PullExcept(num_runs, retries)
       THEN Raise("SystemExit:retries")
       ELSE pc' = "pl_sleep" /\ UNCHANGED outcome
    /\ UNCHANGED <<calls, idx, inputs, pullVars, notPull>>

\* time.sleep(timeout)
PullSleep ==
    /\ At("pl_sleep")
    /\ calls' = Log(Call("sleep", "layer", idx, 0))
    /\ pc' = "pl_retry"
    /\ UNCHANGED <<outcome, idx, inputs, pullVars, notPull>>

\* download() inside the except clause: any failure propagates
RetryFailsIgnored(rc) == FALSE

RetryFails(rc) == rc # 0

PullRetry ==
    /\ At("pl_retry")
    /\ \E rc \in ExitCodes :
         /\ calls' = Log(Call("pull-source", "layer", idx, rc))
         /\ IF RetryFails(rc)
            THEN Raise("ErrorReturnCode")
            ELSE pc' = "pl_checkout" /\ UNCHANGED outcome
    /\ UNCHANGED <<idx, inputs, pullVars, notPull>>

\* ltype, name = layer_name.split(":"); sh.git.checkout("-f", layer_branch)
PullCheckout ==
    /\ At("pl_checkout")
    /\ IF ltype(layer_list[idx].name) \in {"layer", "interface"}
       THEN \E rc \in ExitCodes :
                 /\ calls' = Log(Call("checkout", "layer", idx, rc))
                 /\ IF rc = 0
                    THEN pc' = "pl_loop" /\ idx' = idx + 1 /\ UNCHANGED outcome
                    ELSE Raise("ErrorReturnCode") /\ UNCHANGED idx
       ELSE Raise("SystemExit:unknown_layer") /\ UNCHANGED <<calls, idx>>
    /\ UNCHANGED <<inputs, pullVars, notPull>>

\* --------------------------------------------------------------- _resource
FileNames == {"f1", "f2", "junk"}
Fragments == {{}, {"f1"}, {"f1", "f2"}}

\* resource_spec.get(charm_entity, None), as the set of file names with a key
Fragment(e) == IF e \in DOMAIN resource_spec THEN resource_spec[e] ELSE {}

\* if not resource_spec_fragment: raise SystemExit
NoFragmentMissed(frag) == FALSE

NoFragment(frag) == frag = {}

\* resource_spec = yaml.safe_load(...)
\* resource_spec_fragment = resource_spec.get(charm_entity, None)
ResStart ==
    /\ At("rs_start")
    /\ calls' = Log(Read("resource-spec"))
    /\ IF NoFragment(Fragment(charm_entity))
       THEN Raise("SystemExit:resource_spec")
       ELSE pc' = "rs_show" /\ UNCHANGED outcome
    /\ UNCHANGED <<idx, inputs, notRes, resVars>>

\* charm_id = sh.charm.show(charm_entity, "--channel", channel, "id")
ResShow ==
    /\ At("rs_show")
    /\ \E rc \in ExitCodes :
         /\ calls' = Log(Call("show", "resource", idx, rc))
         /\ IF rc = 0
            THEN pc' = "rs_list" /\ UNCHANGED outcome
            ELSE Raise("ErrorReturnCode")
    /\ UNCHANGED <<idx, inputs, notRes, resVars>>

\* try: resources = sh.charm("list-resources", ...) except ErrorReturnCode_1: return
ResList ==
    /\ At("rs_list")
    /\ \E rc \in ExitCodes :
         /\ calls' = Log(Call("list-resources", "resource", idx, rc))
         /\ CASE rc = 0 -> pc' = "rs_builder" /\ UNCHANGED outcome
              [] rc = 1 -> Return("_resource")
              [] OTHER  -> Raise("ErrorReturnCode")
    /\ UNCHANGED <<idx, inputs, notRes, resVars>>

\* sh.bash(str(builder_sh), _cwd=out_path, ...); glob("{}/*".format(out_path))
ResBuilder ==
    /\ At("rs_builder")
    /\ \E rc \in ExitCodes :
         /\ calls' = Log(Call("builder", "resource", idx, rc))
         /\ IF rc = 0
            THEN /\ pc' = "rs_files"
                 /\ files' = built
                 /\ fidx' = 1
                 /\ UNCHANGED outcome
            ELSE Raise("ErrorReturnCode") /\ UNCHANGED <<files, fidx>>
    /\ UNCHANGED <<idx, inputs, notRes, charm_entity, is_attached,
                   is_attached_count, attach_n>>

\* for line in glob(...): resource_key = resource_spec_fragment.get(resource_fn)
\* if resource_key: is_attached = False; is_attached_count = 0
ResFile ==
    /\ At("rs_files")
    /\ IF fidx > Len(files)
       THEN /\ Return("_resource")
            /\ fidx' = 1
            /\ is_attached' = FALSE
            /\ is_attached_count' = 0
            /\ attach_n' = 0
       ELSE IF files[fidx] \in Fragment(charm_entity)
            THEN /\ is_attached' = FALSE
                 /\ is_attached_count' = 0
                 /\ attach_n' = 0
                 /\ pc' = "rs_while"
                 /\ UNCHANGED <<fidx, outcome>>
            ELSE /\ fidx' = fidx + 1
                 /\ UNCHANGED <<pc, outcome, is_attached, is_attached_count, attach_n>>
    /\ files' = IF fidx > Len(files) THEN <<>> ELSE files
    /\ UNCHANGED <<calls, idx, inputs, notRes, charm_entity>>

\* while not is_attached: ...; click.echo(out)
ResWhile ==
    /\ At("rs_while")
    /\ IF is_attached
       THEN pc' = "rs_files" /\ fidx' = fidx + 1
       ELSE pc' = "rs_attach" /\ UNCHANGED fidx
    /\ UNCHANGED <<outcome, calls, idx, inputs, notRes, charm_entity, files,
                   is_attached, is_attached_count, attach_n>>

\* if is_attached_count > 10: raise SystemExit
AttachExhaustedOff(n) == n > MaxAttachRetries + 1

AttachExhausted(n) == n > MaxAttachRetries

\* try: out = sh.charm.attach(...); is_attached = True
\* except sh.ErrorReturnCode_1: is_attached_count += 1; if ... raise SystemExit
ResAttach ==
    /\ At("rs_attach")
    /\ attach_n' = attach_n + 1
    /\ \E rc \in ExitCodes :
         /\ calls' = Log(FileCall("attach", "resource", idx, fidx, rc))
         /\ CASE rc = 0 -> /\ is_attached' = TRUE
                           /\ pc' = "rs_while"
                           /\ UNCHANGED <<outcome, is_attached_count>>
              [] rc = 1 -> /\ is_attached_count' = is_attached_count + 1
                           /\ IF AttachExhausted(is_attached_count + 1)
                              THEN Raise("SystemExit:attach")
                              ELSE pc' = "rs_while" /\ UNCHANGED outcome
                           /\ UNCHANGED is_attached
              [] OTHER  -> /\ Raise("ErrorReturnCode")
                           /\ UNCHANGED <<is_attached, is_attached_count>>
    /\ UNCHANGED <<idx, inputs, notRes, charm_entity, files, fidx>>

\* ------------------------------------------------------------------ forks
\* for layer_map in layer_list + charm_list
Manifest == layer_list \o charm_list

\* the external commands of __run_git, in order: one capture(), then cmd_ok()s
GitSteps ==
    <<"clone", "config", "config", "config", "remote-add", "fetch",
      "checkout", "merge", "push", "rm">>

Done(f) == f.res \in {"ok", "Exception", "SystemExit", "cancelled"}

\* if urlparse(upstream).path.lstrip("/") == downstream: continue
\* repos_to_process.append(items)
ForkQueue ==
    /\ At("fk_queue")
    /\ IF idx > Len(Manifest)
       THEN /\ IF dry_run THEN Return("forks") ELSE pc' = "fk_submit" /\ UNCHANGED outcome
            /\ UNCHANGED <<idx, repos_to_process>>
       ELSE /\ idx' = idx + 1
            /\ repos_to_process' =
                 IF Manifest[idx].same_repo
                 THEN repos_to_process
                 ELSE Append(repos_to_process, idx)
            /\ UNCHANGED <<pc, outcome>>
    /\ UNCHANGED <<calls, inputs, notFork, gr, seen, logged, pending>>

\* git_runs = {tp.submit(__run_git, args): args for args in repos_to_process}
ForkSubmit ==
    /\ At("fk_submit")
    /\ IF Len(gr) < Len(repos_to_process)
       THEN gr' = Append(gr, [k |-> 0, res |-> "queued", err |-> 0]) /\ UNCHANGED pc
       ELSE pc' = "fk_collect" /\ UNCHANGED gr
    /\ UNCHANGED <<outcome, calls, idx, inputs, notFork, repos_to_process, seen,
                   logged, pending>>

\* a worker thread of the pool takes the next work item of the queue
ForkStart(i) ==
    /\ outcome = "running"
    /\ gr[i].res = "queued"
    /\ \A j \in 1..(i - 1) : gr[j].res # "queued"
    /\ Cardinality({j \in DOMAIN gr : gr[j].res = "running"}) < cpu_count
    /\ gr' = [gr EXCEPT ![i].res = "running"]
    /\ UNCHANGED <<pc, outcome, calls, idx, inputs, notFork, repos_to_process,
                   seen, logged, pending>>

\* ret = capture("git clone ..."); if not ret.ok: sys.exit(1)
CloneFailure == "SystemExit"

\* cmd_ok(...) of a command that exits non-zero
CmdOkFailure == "Exception"

\* cmd_ok(...) raises when the command exits non-zero; otherwise it returns and
\* __run_git goes on with its next command
CmdOkNeverRaises(rc) == FALSE

CmdOkRaises(rc) == rc # 0

\* __run_git: the next external command of work item i
RunGit(i) ==
    /\ outcome = "running"
    /\ gr[i].res = "running"
    /\ \E rc \in ExitCodes :
         gr' = [gr EXCEPT ![i] =
                  CASE GitSteps[@.k + 1] = "clone" /\ rc # 0 ->
                          [k |-> @.k, res |-> CloneFailure, err |-> @.k + 1]
                    [] GitSteps[@.k + 1] # "clone" /\ CmdOkRaises(rc) ->
                          [k |-> @.k, res |-> CmdOkFailure, err |-> @.k + 1]
                    [] OTHER ->
                          [k |-> @.k + 1,
                           res |-> IF @.k + 1 = Len(GitSteps) THEN "ok" ELSE "running",
                           err |-> IF rc = 0 THEN @.err ELSE @.k + 1]]
    /\ UNCHANGED <<pc, outcome, calls, idx, inputs, notFork, repos_to_process,
                   seen, logged, pending>>

\* except Exception as exc: log.info(f"Failed thread: {exc}")
Caught(res) == res = "Exception"

\* for future in as_completed(git_runs): try: data = future.result()
ForkCollect ==
    /\ At("fk_collect")
    /\ IF seen = DOMAIN gr
       THEN /\ pc' = "fk_shutdown"
            /\ pending' = "returned"
            /\ UNCHANGED <<seen, logged>>
       ELSE \E i \in DOMAIN gr \ seen :
              /\ Done(gr[i])
              /\ seen' = seen \cup {i}
              /\ CASE gr[i].res = "ok" -> UNCHANGED <<pc, logged, pending>>
                   [] Caught(gr[i].res) ->
                        logged' = logged \cup {i} /\ UNCHANGED <<pc, pending>>
                   [] OTHER ->
                        /\ pc' = "fk_shutdown"
                        /\ pending' = "SystemExit:1"
                        /\ UNCHANGED logged
    /\ UNCHANGED <<outcome, calls, idx, inputs, notFork, repos_to_process, gr>>

\* ThreadPoolExecutor.__exit__: shutdown(wait=True), queued work items are kept
ShutdownCancels(g) ==
    [i \in DOMAIN g |->
        IF g[i].res = "queued" THEN [g[i] EXCEPT !.res = "cancelled"] ELSE g[i]]

Shutdown(g) == g

ForkShutdown ==
    /\ At("fk_shutdown")
    /\ gr' = Shutdown(gr)
    /\ pc' = "fk_join"
    /\ UNCHANGED <<outcome, calls, idx, inputs, notFork, repos_to_process, seen,
                   logged, pending>>

\* shutdown(wait=True) joins the worker threads
JoinNoWait(g) == TRUE

Joined(g) == \A i \in DOMAIN g : Done(g[i])

ForkJoin ==
    /\ At("fk_join")
    /\ Joined(gr)
    /\ Raise(pending)
    /\ UNCHANGED <<calls, idx, inputs, notFork, forkVars>>

\* ------------------------------------------------------ _cut_stable_release
\* (the credentials CDKBOT_GH_USR and CDKBOT_GH_PSW of os.environ are set)
\* for layer_map in layer_list + charm_list + ancillary_list
CutManifestCharmsFirst == charm_list \o layer_list \o ancillary_list

CutManifest == layer_list \o charm_list \o ancillary_list

\* tags = repos.get("tags", None)
\* if tags: if not any(match in filter_by_tag for match in tags): continue
FilteredNoGuard(e) == e.tags \cap filter_by_tag = {}

Filtered(e) == e.has_tags /\ e.tags # {} /\ e.tags \cap filter_by_tag = {}

CutNext ==
    /\ At("cs_loop")
    /\ IF idx > Len(CutManifest)
       THEN Return("_cut_stable_release") /\ UNCHANGED idx
       ELSE IF \/ ~CutManifest[idx].needs_stable
               \/ Filtered(CutManifest[idx])
               \/ dry_run
            THEN idx' = idx + 1 /\ UNCHANGED <<pc, outcome>>
            ELSE pc' = "cs_clone" /\ UNCHANGED <<idx, outcome>>
    /\ UNCHANGED <<calls, inputs, notSync, logged, syncVars>>

\* for line in git.clone(downstream, identifier, _iter=True)
CutClone ==
    /\ Sh("cs_clone", "clone", "all", "cs_rev_master")
    /\ UNCHANGED <<idx, inputs, notSync, logged, syncVars>>

\* git_rev_master = git("rev-parse", "origin/master").stdout.decode()
CutRevMaster ==
    /\ Sh("cs_rev_master", "rev-parse-master", "all", "cs_rev_stable")
    /\ git_rev_master' = IF pc' = "end" THEN git_rev_master ELSE CutManifest[idx].master
    /\ UNCHANGED <<idx, inputs, notSync, logged, git_rev_stable, tag, tagops>>

\* git_rev_stable = git("rev-parse", "origin/stable").stdout.decode()
CutRevStable ==
    /\ Sh("cs_rev_stable", "rev-parse-stable", "all", "cs_compare")
    /\ git_rev_stable' = IF pc' = "end" THEN git_rev_stable ELSE CutManifest[idx].stable
    /\ UNCHANGED <<idx, inputs, notSync, logged, git_rev_master, tag, tagops>>

\* if git_rev_master == git_rev_stable: continue
SameRevNever(m, s) == FALSE

SameRev(m, s) == m = s

CutCompare ==
    /\ At("cs_compare")
    /\ IF SameRev(git_rev_master, git_rev_stable)
       THEN pc' = "cs_loop" /\ idx' = idx + 1
       ELSE pc' = "cs_config_email" /\ UNCHANGED idx
    /\ UNCHANGED <<outcome, calls, inputs, notSync, logged, syncVars>>

\* git.config("user.email", ...); git.config("user.name", ...);
\* git.config("--global", "push.default", "simple")
CutConfig ==
    /\ \/ Sh("cs_config_email", "config-email", "all", "cs_config_name")
       \/ Sh("cs_config_name", "config-name", "all", "cs_config_push")
       \/ Sh("cs_config_push", "config-push", "all", "cs_checkout")
    /\ UNCHANGED <<idx, inputs, notSync, logged, syncVars>>

\* git.checkout("-f", "stable", _cwd=identifier)
CutCheckout ==
    /\ Sh("cs_checkout", "checkout", "all", "cs_merge")
    /\ UNCHANGED <<idx, inputs, notSync, logged, syncVars>>

\* git.merge("master", "--no-ff", _cwd=identifier)
CutMerge ==
    /\ Sh("cs_merge", "merge-no-ff", "all", "cs_push")
    /\ UNCHANGED <<idx, inputs, notSync, logged, syncVars>>

\* for line in git.push("origin", "stable", _cwd=identifier, _iter=True)
CutPush ==
    /\ Sh("cs_push", "push", "all", "cs_loop")
    /\ idx' = IF pc' = "end" THEN idx ELSE idx + 1
    /\ UNCHANGED <<inputs, notSync, logged, syncVars>>

\* -------------------------------------------------------- _tag_stable_forks
\* if bugfix: tag = f"{k8s_version}+{bundle_rev}"
\* else: tag = f"ck-{k8s_version}-{bundle_rev}"
TagNameSwapped(b, v, r) == IF b THEN "ck-" \o v \o "-" \o r ELSE v \o "+" \o r

TagName(b, v, r) == IF b THEN v \o "+" \o r ELSE "ck-" \o v \o "-" \o r

\* for layer_map in layer_list + charm_list
TagNext ==
    /\ At("ts_loop")
    /\ IF idx > Len(Manifest)
       THEN Return("_tag_stable_forks") /\ UNCHANGED <<idx, tag>>
       ELSE /\ tag' = IF Filtered(Manifest[idx])
                      THEN tag
                      ELSE TagName(bugfix, k8s_version, bundle_rev)
            /\ IF \/ Filtered(Manifest[idx])
                  \/ ~Manifest[idx].needs_tagging
                  \/ dry_run
               THEN idx' = idx + 1 /\ UNCHANGED <<pc, outcome>>
               ELSE pc' = "ts_clone" /\ UNCHANGED <<idx, outcome>>
    /\ UNCHANGED <<calls, inputs, notSync, logged, git_rev_master, git_rev_stable,
                   tagops>>

\* for line in git.clone(downstream, identifier, _iter=True)
TagClone ==
    /\ Sh("ts_clone", "clone", "all", "ts_config_email")
    /\ UNCHANGED <<idx, inputs, notSync, logged, syncVars>>

TagConfig ==
    /\ \/ Sh("ts_config_email", "config-email", "all", "ts_config_name")
       \/ Sh("ts_config_name", "config-name", "all", "ts_config_push")
       \/ Sh("ts_config_push", "config-push", "all", "ts_checkout")
    /\ UNCHANGED <<idx, inputs, notSync, logged, syncVars>>

\* git.checkout("stable", _cwd=identifier)
TagCheckout ==
    /\ Sh("ts_checkout", "checkout", "all", "ts_tag")
    /\ UNCHANGED <<idx, inputs, notSync, logged, syncVars>>

\* the commands inside try: ... except sh.ErrorReturnCode as error: log.info()
TryScopeTagOnly == {"tag"}

TryScope == {"tag", "push"}

\* a command of the tagging workflow fails: logged and skipped inside the try
\* block, raised outside of it
TagFails(op) ==
    IF op \in TryScope
    THEN pc' = "ts_loop" /\ idx' = idx + 1 /\ logged' = logged \cup {idx}
         /\ UNCHANGED outcome
    ELSE Raise("ErrorReturnCode") /\ UNCHANGED <<idx, logged>>

\* for line in git.tag("--force", tag, _cwd=identifier, _iter=True, _bg_exc=False)
TagTag ==
    /\ At("ts_tag")
    /\ \E rc \in ExitCodes :
         /\ calls' = Log(Call("tag", "all", idx, rc))
         /\ tagops' = Append(tagops, [op |-> "tag", i |-> idx, tag |-> tag])
         /\ IF rc = 0
            THEN pc' = "ts_push" /\ UNCHANGED <<outcome, idx, logged>>
            ELSE TagFails("tag")
    /\ UNCHANGED <<inputs, notSync, git_rev_master, git_rev_stable, tag>>

\* for line in git.push("--force", "origin", tag, ...)
TagPush ==
    /\ At("ts_push")
    /\ \E rc \in ExitCodes :
         /\ calls' = Log(Call("push", "all", idx, rc))
         /\ tagops' = Append(tagops, [op |-> "push", i |-> idx, tag |-> tag])
         /\ IF rc = 0
            THEN pc' = "ts_loop" /\ idx' = idx + 1 /\ UNCHANGED <<outcome, logged>>
            ELSE TagFails("push")
    /\ UNCHANGED <<inputs, notSync, git_rev_master, git_rev_stable, tag>>

\* ------------------------------------------------------------ charm store
ListOf(l) == IF l = "charm" THEN charm_list ELSE bundle_list

Channels == {"unpublished", "edge"}

\* "{}-{}".format(resource["name"], resource["revision"])
Format(r) == r.name \o "-" \o ToString(r.revision)

\* resources_args = [("--resource", "{}-{}".format(...)) for resource in resources]
ArgsDropLast(rs) ==
    [k \in 1..(Len(rs) - 1) |-> <<"--resource", Format(rs[k])>>]

Args(rs) ==
    [k \in DOMAIN rs |-> <<"--resource", Format(rs[k])>>]

\* the store before the command runs: the revision and the resources of every
\* entity at the source channel, an older revision without resources elsewhere
Store0 ==
    [ch \in Channels |->
       [l \in {"charm", "bundle"} |->
          [i \in DOMAIN ListOf(l) |->
             IF ch = from_channel
             THEN [id |-> 2, resources |-> ListOf(l)[i].published]
             ELSE [id |-> 1, resources |-> <<>>]]]]

\* charm push: a new revision of the entity in the unpublished channel
Pushed(s, l, i) == [s EXCEPT !["unpublished"][l][i].id = @ + 1]

\* the resource revisions of the entity that the --resource arguments name
Resolve(args, l, i) ==
    SelectSeq(ListOf(l)[i].published,
              LAMBDA r : \E k \in DOMAIN args : args[k][2] = Format(r))

\* charm release: the revision and the named resources become the release of
\* the channel
ReleasedAsPush(s, ch, l, i, id, args) == Pushed(s, l, i)

Released(s, ch, l, i, id, args) ==
    [s EXCEPT ![ch][l][i] = [id |-> id, resources |-> Resolve(args, l, i)]]

\* ------------------------------------------------------------------ _push
List == ListOf(lst)

\* images = {name: details["upstream-source"] for name, details in
\*           resources.items()
\*           if details["type"] == "oci-image" and details.get("upstream-source")}
IsImageAnyType(r) == r.src # ""

IsImage(r) == r.type = "oci-image" /\ r.src # ""

Images(rs) == SelectSeq(rs, IsImage)

\* git_commit = sh.git("rev-parse", "HEAD", _cwd=repo_path)
PushRevParse ==
    /\ Sh("ps_rev", "rev-parse-head", lst, "ps_pull")
    /\ pidx' = 1
    /\ UNCHANGED <<idx, inputs, notBuild, lst, pushes>>

\* sh.docker.pull(image) raises sh.ErrorReturnCode when the fetch fails
PullFailsIgnored(rc) == FALSE

PullFails(rc) == rc # 0

\* for image in images.values(): sh.docker.pull(image)
PushPull ==
    /\ At("ps_pull")
    /\ IF pidx > Len(Images(List[idx].resources))
       THEN pc' = "ps_push" /\ UNCHANGED <<outcome, calls, pidx>>
       ELSE \E rc \in ExitCodes :
              /\ calls' = Log(FileCall("docker-pull", lst, idx, pidx, rc))
              /\ IF PullFails(rc)
                 THEN Raise("ErrorReturnCode") /\ UNCHANGED pidx
                 ELSE pidx' = pidx + 1 /\ UNCHANGED <<pc, outcome>>
    /\ UNCHANGED <<idx, inputs, notBuild, lst, pushes>>

\* resource_args = [arg for name, image in images.items()
\*                  for arg in ("--resource", f"{name}={image}")]
ResourceArgs(images) ==
    [k \in 1..(2 * Len(images)) |->
        IF k % 2 = 1
        THEN "--resource"
        ELSE images[k \div 2].name \o "=" \o images[k \div 2].src]

\* out = sh.charm.push(out_path, charm_entity, *resource_args)
PushPush ==
    /\ Sh("ps_push", "push", lst, "ps_set")
    /\ pushes' = Append(pushes,
                        [l |-> lst, i |-> idx, rc |-> calls'[Len(calls')].rc,
                         args |-> ResourceArgs(Images(List[idx].resources))])
    /\ store' = IF pc' = "end" THEN store ELSE Pushed(store, lst, idx)
    /\ UNCHANGED <<idx, inputs, notProm, lst, pidx, run, charm_id, resources,
                   resources_args, released>>

\* sh.charm.set(out["url"], "commit={}".format(git_commit))
PushSet ==
    /\ At("ps_set")
    /\ \E rc \in ExitCodes :
         /\ calls' = Log(Call("set", lst, idx, rc))
         /\ IF rc = 0 THEN Return("_push") ELSE Raise("ErrorReturnCode")
    /\ UNCHANGED <<idx, inputs, notBuild, buildVars>>

\* --------------------------------------------------------------- _promote
\* charm_list = yaml.safe_load(...); for charm_map in charm_list
PromoteStart ==
    /\ At("pr_start")
    /\ calls' = Log(Read(lst \o "-list"))
    /\ idx' = 1
    /\ pc' = "pr_loop"
    /\ UNCHANGED <<outcome, inputs, notProm, buildVars, promVars>>

PromoteNext ==
    /\ At("pr_loop")
    /\ IF idx > Len(List)
       THEN /\ Return("_promote")
            /\ charm_id' = 0
            /\ resources' = <<>>
            /\ resources_args' = <<>>
       ELSE /\ pc' = "pr_show"
            /\ UNCHANGED <<outcome, charm_id, resources, resources_args>>
    /\ UNCHANGED <<calls, idx, inputs, notProm, buildVars, run, store, released>>

\* charm_id = sh.charm.show(charm_entity, "--channel", from_channel, "id")
\* resources_args = []
PromoteShow ==
    /\ At("pr_show")
    /\ \E rc \in ExitCodes :
         /\ calls' = Log(Call("show", lst, idx, rc))
         /\ IF rc = 0
            THEN /\ charm_id' = store[from_channel][lst][idx].id
                 /\ resources' = <<>>
                 /\ resources_args' = <<>>
                 /\ pc' = "pr_list"
                 /\ UNCHANGED outcome
            ELSE /\ Raise("ErrorReturnCode")
                 /\ UNCHANGED <<charm_id, resources, resources_args>>
    /\ UNCHANGED <<idx, inputs, notProm, buildVars, run, store, released>>

\* except sh.ErrorReturnCode_1: click.echo("No resources for ...")
NoResourcesRaises(rc) == FALSE

NoResources(rc) == rc = 1

\* try: resources = sh.charm("list-resources", charm_id["id"]["Id"],
\*                           channel=from_channel, format="yaml")
\*      if resources: resources_args = [...]
PromoteList ==
    /\ At("pr_list")
    /\ \E rc \in ExitCodes :
         /\ calls' = Log(Call("list-resources", lst, idx, rc))
         /\ CASE rc = 0 ->
                   /\ resources' = store[from_channel][lst][idx].resources
                   /\ resources_args' =
                        IF resources' # <<>> THEN Args(resources') ELSE resources_args
                   /\ pc' = "pr_release"
                   /\ UNCHANGED outcome
              [] rc # 0 /\ NoResources(rc) ->
                   /\ pc' = "pr_release"
                   /\ UNCHANGED <<outcome, resources, resources_args>>
              [] OTHER ->
                   /\ Raise("ErrorReturnCode")
                   /\ UNCHANGED <<resources, resources_args>>
    /\ UNCHANGED <<idx, inputs, notProm, buildVars, run, store, charm_id, released>>

\* sh.charm.release(charm_id["id"]["Id"], "--channel", to_channel, *resources_args)
PromoteRelease ==
    /\ At("pr_release")
    /\ \E rc \in ExitCodes :
         /\ calls' = Log(Call("release", lst, idx, rc))
         /\ IF rc = 0
            THEN /\ released' = Append(released,
                      [run |-> run, l |-> lst, i |-> idx, id |-> charm_id,
                       listed |-> resources, args |-> resources_args,
                       at |-> Len(calls')])
                 /\ store' = Released(store, to_channel, lst, idx, charm_id,
                                      resources_args)
                 /\ idx' = idx + 1
                 /\ pc' = "pr_loop"
                 /\ UNCHANGED outcome
            ELSE Raise("ErrorReturnCode") /\ UNCHANGED <<idx, released, store>>
    /\ UNCHANGED <<inputs, notProm, buildVars, run, charm_id, resources,
                   resources_args>>

\* the promote command line is invoked once more
PromoteAgain ==
    /\ At("pr_again")
    /\ run' = run + 1
    /\ pc' = "pr_start"
    /\ UNCHANGED <<outcome, calls, idx, inputs, notProm, buildVars, store,
                   charm_id, resources, resources_args, released>>

\* ------------------------------------------------------------------ build
\* charm_env = CharmEnv(); charm_list = ...; _pull_layers(layer_index,
\* layer_list, layer_branch)
BuildStart ==
    /\ At("b_env")
    /\ IF CharmEnv
       THEN pc' = "pl_env" /\ calls' = Log(Read("charm-list")) /\ UNCHANGED outcome
       ELSE Raise("SystemExit:env") /\ UNCHANGED calls
    /\ UNCHANGED <<idx, inputs, notBuild, buildVars>>

\* log("charm builds"); for charm_map in charm_list
BuildCharms ==
    /\ At("b_charms")
    /\ idx' = 1
    /\ lst' = "charm"
    /\ pc' = "b_loop"
    /\ UNCHANGED <<outcome, calls, inputs, notBuild, pidx, pushes>>

\* if not any(match in filter_by_tag for match in charm_opts["tags"]): continue
Selected(e) == e.tags \cap filter_by_tag # {}

\* ... if dry_run: log(...); continue.  After the loop: _promote(charm_list)
BuildNext ==
    /\ At("b_loop")
    /\ IF idx > Len(charm_list)
       THEN pc' = "pr_start" /\ UNCHANGED <<idx, outcome>>
       ELSE IF ~charm_list[idx].has_tags
            THEN Raise("KeyError") /\ UNCHANGED idx
            ELSE IF ~Selected(charm_list[idx]) \/ dry_run
                 THEN idx' = idx + 1 /\ UNCHANGED <<pc, outcome>>
                 ELSE pc' = "b_clone" /\ UNCHANGED <<idx, outcome>>
    /\ UNCHANGED <<calls, inputs, notBuild, buildVars>>

\* for line in sh.git.clone("--branch", charm_branch, downstream, src_path)
BuildClone ==
    /\ Sh("b_clone", "clone", "charm", "b_build")
    /\ UNCHANGED <<idx, inputs, notBuild, buildVars>>

\* for line in sh.charm.build(r=True, force=True, _cwd=src_path, ...)
BuildCharm ==
    /\ Sh("b_build", "build", "charm", "b_proof")
    /\ UNCHANGED <<idx, inputs, notBuild, buildVars>>

\* sh.charm.proof(_cwd=dst_path); _push(src_path, dst_path, charm_entity)
BuildProof ==
    /\ Sh("b_proof", "proof", "charm", "ps_rev")
    /\ UNCHANGED <<idx, inputs, notBuild, buildVars>>

\* resource_builder = charm_opts.get("resource_build_sh", None)
\* if resource_builder: _resource(charm_entity, "unpublished", ...)
BuildResource ==
    /\ At("b_resource")
    /\ IF charm_list[idx].builder
       THEN pc' = "rs_start" /\ charm_entity' = idx
       ELSE pc' = "b_done" /\ UNCHANGED charm_entity
    /\ UNCHANGED <<outcome, calls, idx, inputs, pullVars, forkVars, syncVars,
                   buildVars, promVars, files, fidx, is_attached,
                   is_attached_count, attach_n>>

\* the end of the loop body: the next charm
BuildDone ==
    /\ At("b_done")
    /\ idx' = idx + 1
    /\ pc' = "b_loop"
    /\ UNCHANGED <<outcome, calls, inputs, notBuild, buildVars>>

\* bundle_list = ...; os.makedirs(...)
\* for line in sh.git.clone(bundle_repo, str(bundle_repo_dir), _iter=True)
BundleStart ==
    /\ At("bb_start")
    /\ \E rc \in ExitCodes :
         /\ calls' = Append(Log(Read("bundle-list")), Call("clone", "bundle-repo", 0, rc))
         /\ IF rc = 0
            THEN pc' = "bb_loop" /\ idx' = 1 /\ lst' = "bundle" /\ UNCHANGED outcome
            ELSE Raise("ErrorReturnCode") /\ UNCHANGED <<idx, lst>>
    /\ UNCHANGED <<inputs, notBuild, pidx, pushes>>

\* for bundle_map in bundle_list: if not any(... bundle_opts["tags"]): continue
\* After the loop: _promote(bundle_list)
BundleNext ==
    /\ At("bb_loop")
    /\ IF idx > Len(bundle_list)
       THEN pc' = "pr_start" /\ UNCHANGED <<idx, outcome>>
       ELSE IF ~bundle_list[idx].has_tags
            THEN Raise("KeyError") /\ UNCHANGED idx
            ELSE IF ~Selected(bundle_list[idx])
                 THEN idx' = idx + 1 /\ UNCHANGED <<pc, outcome>>
                 ELSE pc' = "bb_build" /\ UNCHANGED <<idx, outcome>>
    /\ UNCHANGED <<calls, inputs, notBuild, buildVars>>

\* sh.bash(str(bundle_repo_dir / "bundle"), "-o", ...); _push(...)
BundleBuild ==
    /\ Sh("bb_build", "bundle-build", "bundle", "ps_rev")
    /\ UNCHANGED <<idx, inputs, notBuild, buildVars>>

\* the end of the loop body: the next bundle
BundleDone ==
    /\ At("bb_done")
    /\ idx' = idx + 1
    /\ pc' = "bb_loop"
    /\ UNCHANGED <<outcome, calls, inputs, notBuild, buildVars>>

\* ------------------------------------------------------------------ Init
\* the state of the functions a command does not call
NoPull == num_runs = 0

NoResource ==
    /\ charm_entity = 1
    /\ files = <<>>
    /\ fidx = 1
    /\ is_attached = FALSE
    /\ is_attached_count = 0
    /\ attach_n = 0

NoFork ==
    /\ repos_to_process = <<>>
    /\ gr = <<>>
    /\ seen = {}
    /\ logged = {}
    /\ pending = "none"

NoSync ==
    /\ git_rev_master = "none"
    /\ git_rev_stable = "none"
    /\ tag = ""
    /\ tagops = <<>>

NoBuild == lst = "charm" /\ pidx = 1 /\ pushes = <<>>

NoPromote ==
    /\ run = 1
    /\ store = Store0
    /\ charm_id = 0
    /\ resources = <<>>
    /\ resources_args = <<>>
    /\ released = <<>>

\* the inputs a command does not read
NoLists(ls) ==
    /\ "layer" \in ls \/ layer_list = <<>>
    /\ "charm" \in ls \/ charm_list = <<>>
    /\ "ancillary" \in ls \/ ancillary_list = <<>>
    /\ "bundle" \in ls \/ bundle_list = <<>>

NoOptions(os) ==
    /\ "dry_run" \in os \/ dry_run = FALSE
    /\ "filter_by_tag" \in os \/ filter_by_tag = {}
    /\ "retries" \in os \/ retries = DefaultRetries
    /\ "resource_spec" \in os \/ (resource_spec = <<>> /\ built = <<>>)
    /\ "cpu_count" \in os \/ cpu_count = 1
    /\ "environ" \in os \/ environ = EnvVars
    /\ "channels" \in os \/ (from_channel = "unpublished" /\ to_channel = "edge")
    /\ "invocations" \in os \/ invocations = 1
    /\ "tag" \in os \/ (bugfix = FALSE /\ k8s_version = "" /\ bundle_rev = "")

Filters == {{}, {"k8s"}}

\* the path variables: all set, or one of them unset
Environs == {EnvVars} \cup {EnvVars \ {v} : v \in EnvVars}

Tagged(t) == [Repo EXCEPT !.has_tags = TRUE, !.tags = t]

InitPullLayers ==
    /\ cmd = "pull_layers"
    /\ pc = "pl_env"
    /\ layer_list \in SeqsUpTo({Entry(n) : n \in LayerNames}, MaxLayers)
    /\ retries \in 0..MaxRetries
    /\ environ \in Environs
    /\ NoLists({"layer"})
    /\ NoOptions({"retries", "environ"})
    /\ NoPull /\ NoResource /\ NoFork /\ NoSync /\ NoBuild

InitResource ==
    /\ cmd = "resource"
    /\ pc = "rs_start"
    /\ resource_spec \in [{1} -> Fragments]
    /\ built \in {f \in SeqsUpTo(FileNames, MaxFiles) : Injective(f)}
    /\ NoLists({})
    /\ NoOptions({"resource_spec"})
    /\ NoPull /\ NoResource /\ NoFork /\ NoSync /\ NoBuild

\* what the store lists for an entity at the source channel
Publications ==
    {<<>>, <<[name |-> "a", revision |-> 1]>>,
     <<[name |-> "b", revision |-> 12], [name |-> "a", revision |-> 1]>>}

InitPromote ==
    /\ cmd = "promote"
    /\ pc = "pr_start"
    /\ charm_list \in SeqsUpTo({[Repo EXCEPT !.published = p] : p \in Publications},
                               MaxEntries)
    /\ from_channel \in Channels
    /\ to_channel \in Channels
    /\ invocations \in 1..MaxRuns
    /\ NoLists({"charm"})
    /\ NoOptions({"channels", "invocations"})
    /\ NoPull /\ NoResource /\ NoFork /\ NoSync /\ NoBuild

ForkRepos == {[Repo EXCEPT !.same_repo = b] : b \in BOOLEAN}

InitForks ==
    /\ cmd = "forks"
    /\ pc = "fk_queue"
    /\ \E m \in Lists(<<ForkRepos, ForkRepos>>, MaxEntries) :
         layer_list = m[1] /\ charm_list = m[2]
    /\ dry_run \in BOOLEAN
    /\ cpu_count \in 1..MaxCpu
    /\ NoLists({"layer", "charm"})
    /\ NoOptions({"dry_run", "cpu_count"})
    /\ NoPull /\ NoResource /\ NoFork /\ NoSync /\ NoBuild

\* the kinds of entry of a sync manifest: without tags, with an empty tag
\* list, with a tag, not needing the stable branch or the tag, already released
CutRepos ==
    {Repo, Tagged({}), Tagged({"k8s"}), Tagged({"other"}),
     [Repo EXCEPT !.needs_stable = FALSE], [Repo EXCEPT !.master = "s1"]}

TagRepos ==
    {Repo, Tagged({}), Tagged({"k8s"}), Tagged({"other"}),
     [Repo EXCEPT !.needs_tagging = FALSE]}

InitCutStable ==
    /\ cmd = "cut_stable_release"
    /\ pc = "cs_loop"
    /\ \E m \in Lists(<<CutRepos, CutRepos, CutRepos>>, MaxEntries) :
         layer_list = m[1] /\ charm_list = m[2] /\ ancillary_list = m[3]
    /\ dry_run \in BOOLEAN
    /\ filter_by_tag \in Filters
    /\ NoLists({"layer", "charm", "ancillary"})
    /\ NoOptions({"dry_run", "filter_by_tag"})
    /\ NoPull /\ NoResource /\ NoFork /\ NoSync /\ NoBuild

\* the values of --k8s-version and --bundle-revision
Versions == {<<"1.14", "100">>, <<"1.15", "7">>}

InitTagStable ==
    /\ cmd = "tag_stable"
    /\ pc = "ts_loop"
    /\ \E m \in Lists(<<TagRepos, TagRepos>>, MaxEntries) :
         layer_list = m[1] /\ charm_list = m[2]
    /\ dry_run \in BOOLEAN
    /\ filter_by_tag \in Filters
    /\ bugfix \in BOOLEAN
    /\ \E v \in Versions : k8s_version = v[1] /\ bundle_rev = v[2]
    /\ NoLists({"layer", "charm"})
    /\ NoOptions({"dry_run", "filter_by_tag", "tag"})
    /\ NoPull /\ NoResource /\ NoFork /\ NoSync /\ NoBuild

\* the resources of a built charm's metadata.yaml
Metadata ==
    <<[name |-> "img", type |-> "oci-image", src |-> "x:1"],
      [name |-> "data", type |-> "file", src |-> ""],
      [name |-> "late", type |-> "oci-image", src |-> ""],
      [name |-> "blob", type |-> "file", src |-> "y:2"]>>

\* the resources of a built bundle's metadata.yaml
BundleMetadata ==
    <<[name |-> "data", type |-> "file", src |-> ""],
      [name |-> "one", type |-> "oci-image", src |-> "x:1"],
      [name |-> "two", type |-> "oci-image", src |-> "z:3"]>>

\* the kinds of charm of a build: selected by the filter, with a resource
\* builder and resources, with another tag, with no tag, without a tag list
BuildCharmKinds ==
    {Tagged({"k8s"}),
     [Tagged({"k8s"}) EXCEPT !.builder = TRUE, !.resources = Metadata,
                             !.published = <<[name |-> "img", revision |-> 3]>>],
     Tagged({"other"}), Tagged({}), Repo}

BuildBundleKinds ==
    {[Tagged({"k8s"}) EXCEPT !.resources = BundleMetadata], Tagged({"other"})}

InitBuild ==
    /\ cmd = "build"
    /\ pc = "b_env"
    /\ \E m \in Lists(<<{Entry(n) : n \in LayerNames}, BuildCharmKinds,
                        BuildBundleKinds>>, MaxBuild) :
         layer_list = m[1] /\ charm_list = m[2] /\ bundle_list = m[3]
    /\ dry_run \in BOOLEAN
    /\ filter_by_tag \in Filters
    /\ \E frag \in {{}, {"f1"}} : resource_spec = [i \in DOMAIN charm_list |-> frag]
    /\ built = <<"junk", "f1">>
    /\ environ \in Environs
    /\ NoLists({"layer", "charm", "bundle"})
    /\ NoOptions({"dry_run", "filter_by_tag", "resource_spec", "environ"})
    /\ NoPull /\ NoResource /\ NoFork /\ NoSync /\ NoBuild

Init ==
    /\ outcome = "running"
    /\ calls = <<>>
    /\ idx = 1
    /\ \/ InitPullLayers
       \/ InitResource
       \/ InitForks
       \/ InitCutStable
       \/ InitTagStable
       \/ InitBuild
       \/ InitPromote
    /\ NoPromote

Next ==
    \/ PullStart
    \/ PullNext
    \/ PullTry
    \/ PullCatch
    \/ PullSleep
    \/ PullRetry
    \/ PullCheckout
    \/ ResStart
    \/ ResShow
    \/ ResList
    \/ ResBuilder
    \/ ResFile
    \/ ResWhile
    \/ ResAttach
    \/ ForkQueue
    \/ ForkSubmit
    \/ \E i \in DOMAIN gr : ForkStart(i)
    \/ \E i \in DOMAIN gr : RunGit(i)
    \/ ForkCollect
    \/ ForkShutdown
    \/ ForkJoin
    \/ CutNext
    \/ CutClone
    \/ CutRevMaster
    \/ CutRevStable
    \/ CutCompare
    \/ CutConfig
    \/ CutCheckout
    \/ CutMerge
    \/ CutPush
    \/ TagNext
    \/ TagClone
    \/ TagConfig
    \/ TagCheckout
    \/ TagTag
    \/ TagPush
    \/ PushRevParse
    \/ PushPull
    \/ PushPush
    \/ PushSet
    \/ PromoteStart
    \/ PromoteNext
    \/ PromoteShow
    \/ PromoteList
    \/ PromoteRelease
    \/ PromoteAgain
    \/ BuildStart
    \/ BuildCharms
    \/ BuildNext
    \/ BuildClone
    \/ BuildCharm
    \/ BuildProof
    \/ BuildResource
    \/ BuildDone
    \/ BundleStart
    \/ BundleNext
    \/ BundleBuild
    \/ BundleDone

Spec == Init /\ [][Next]_vars

\* ---------------------------------------------------------------- claims
CallsOf(op, l, i) ==
    {k \in DOMAIN calls : calls[k].op = op /\ calls[k].l = l /\ calls[k].i = i}

LastCall == calls[Len(calls)]

\* download() calls issued for layer i
Downloads(i) == Cardinality(CallsOf("pull-source", "layer", i))

Failed(f) == f.res \in {"Exception", "SystemExit"}

\* C1: in the forks batch every item failure is logged and the batch call
\* returns normally, whichever items fail (a failed clone included).
C1_BatchReturnsNormally ==
    (cmd = "forks" /\ Ended) =>
        /\ outcome = "returned"
        /\ \A i \in DOMAIN gr : Failed(gr[i]) => i \in logged

\* C2: in the forks batch a failing item never cancels or prevents a sibling:
\* when the batch call ends, every item of repos_to_process was submitted,
\* started and ran to its own success or failure.
C2_SiblingsRunToCompletion ==
    (cmd = "forks" /\ ~dry_run /\ Ended) =>
        /\ Len(gr) = Len(repos_to_process)
        /\ \A i \in DOMAIN gr : gr[i].res \in {"ok", "Exception", "SystemExit"}

C2_Witness ==
    /\ cmd = "forks"
    /\ Ended
    /\ \E i, j \in DOMAIN gr :
         /\ i < j
         /\ gr[i].res = "SystemExit"
         /\ gr[j].res = "ok"
         /\ seen = {i}

\* C3: with retries = N a layer's download is attempted at most N + 1 times.
C3_AtMostRetriesPlusOne ==
    cmd = "pull_layers" => \A i \in DOMAIN layer_list : Downloads(i) <= retries + 1

\* C4: a failed download (exit 1) aborts with the retry-exhaustion error when
\* num_runs equals retries and nothing more is downloaded; otherwise the
\* executor sleeps and downloads that layer exactly once more.  A layer is
\* downloaded at most twice, the second time only after a first attempt that
\* failed with exit 1 and a sleep.
C4_RetryOnceAfterSleep ==
    /\ \A i \in DOMAIN layer_list : Downloads(i) <= 2
    /\ \A k \in DOMAIN calls :
         (calls[k].op = "pull-source"
             /\ \E j \in 1..(k - 1) : j \in CallsOf("pull-source", "layer", calls[k].i)) =>
            /\ k >= 3
            /\ calls[k - 1] = Call("sleep", "layer", calls[k].i, 0)
            /\ calls[k - 2] = Call("pull-source", "layer", calls[k].i, 1)
    /\ \A k \in DOMAIN calls :
         calls[k].op = "sleep" =>
            /\ k >= 2
            /\ calls[k - 1] = Call("pull-source", "layer", calls[k].i, 1)
            /\ k < Len(calls) => calls[k + 1].op = "pull-source" /\ calls[k + 1].i = calls[k].i
    /\ pc \in {"pl_sleep", "pl_retry"} => num_runs # retries
    /\ outcome = "SystemExit:retries" =>
         /\ num_runs = retries
         /\ LastCall = Call("pull-source", "layer", idx, 1)
         /\ Downloads(idx) = 1

C4_Witness ==
    /\ outcome = "SystemExit:retries"
    /\ \E i \in DOMAIN layer_list : Downloads(i) = 2

\* C5: the attempt counter compared with retries starts fresh for each layer:
\* when a layer's download has failed, the counter is the number of attempts
\* made for that layer.
C5_CounterFreshPerLayer ==
    At("pl_except") => num_runs = Downloads(idx)

\* C6: for each produced file that has a resource key, charm attach is issued
\* at most 11 times; the failure counter starts at 0 for the file, the loop
\* stops at the first success, and the 11th failure with exit 1 aborts the run
\* before any later file is attached.
C6_AttachBounded ==
    /\ attach_n <= MaxAttachRetries + 1
    /\ is_attached_count <= MaxAttachRetries + 1
    /\ pc \in {"rs_while", "rs_attach"} =>
         /\ files[fidx] \in Fragment(charm_entity)
         /\ attach_n = is_attached_count + (IF is_attached THEN 1 ELSE 0)
    /\ pc = "rs_attach" => ~is_attached /\ is_attached_count <= MaxAttachRetries
    /\ outcome = "SystemExit:attach" =>
         /\ attach_n = MaxAttachRetries + 1
         /\ is_attached_count = MaxAttachRetries + 1
         /\ LastCall = FileCall("attach", "resource", idx, fidx, 1)
         /\ \A k \in DOMAIN calls : calls[k].op = "attach" => calls[k].f <= fidx

C6_Witness ==
    /\ outcome = "SystemExit:attach"
    /\ fidx = 2
    /\ \E k \in DOMAIN calls : calls[k] = FileCall("attach", "resource", idx, 1, 0)

\* the external calls that change a repository, the charm store or a checkout
Mutating ==
    {"clone", "build", "bundle-build", "push", "set", "attach", "release",
     "merge-no-ff", "tag"}

NoTagMatch(e) == e.tags \cap filter_by_tag = {}

Untouched(l, i) == \A k \in DOMAIN calls : ~(calls[k].l \in l /\ calls[k].i = i)

\* C8: with a filter given, for an entry that has no tag of the filter no
\* action is taken: build issues no call for the charm, cut-stable-release and
\* tag-stable issue no call for the repository.
C8_UnmatchedEntriesUntouched ==
    filter_by_tag # {} =>
    /\ cmd = "build" =>
         \A i \in DOMAIN charm_list :
            NoTagMatch(charm_list[i]) => Untouched({"charm", "resource"}, i)
    /\ cmd = "cut_stable_release" =>
         \A i \in DOMAIN CutManifest :
            NoTagMatch(CutManifest[i]) => Untouched({"all"}, i)
    /\ cmd = "tag_stable" =>
         \A i \in DOMAIN Manifest :
            NoTagMatch(Manifest[i]) => Untouched({"all"}, i)

Has(op, l, i, rc) == \E k \in DOMAIN calls : calls[k] = Call(op, l, i, rc)

\* entries of tag-stable that pass the filter and need tagging
NeedsTagging(i) == ~Filtered(Manifest[i]) /\ Manifest[i].needs_tagging

\* C9 as stated: in tag-stable a failure of any step of one entry's workflow
\* (clone, checkout, tag, push) is logged and skipped and never aborts the batch.
C9_AnyFailureSkipped ==
    cmd = "tag_stable" =>
        /\ outcome \in {"running", "returned"}
        /\ \A k \in DOMAIN calls : calls[k].rc # 0 => calls[k].i \in logged

\* C9 as amended: in tag-stable a failure of tag creation or of the tag push
\* is logged, the entry is skipped and the batch goes on, so that a run that
\* returns has cloned every entry that needs tagging; a failure of any earlier
\* step (clone, config, checkout) is not caught and ends the run.
C9_TagFailureSkipped ==
    cmd = "tag_stable" =>
        /\ \A k \in DOMAIN calls :
             calls[k].rc # 0 =>
                IF calls[k].op \in {"tag", "push"}
                THEN calls[k].i \in logged /\ idx > calls[k].i
                ELSE outcome = "ErrorReturnCode" /\ k = Len(calls)
        /\ outcome = "ErrorReturnCode" =>
             LastCall.rc # 0 /\ LastCall.op \notin {"tag", "push"}
        /\ \A i \in logged : \E k \in CallsOf("tag", "all", i) : TRUE
        /\ (outcome = "returned" /\ ~dry_run) =>
             \A i \in DOMAIN Manifest : NeedsTagging(i) => Has("clone", "all", i, 0)

C9_Witness ==
    /\ cmd = "tag_stable"
    /\ outcome = "returned"
    /\ \E i \in logged : \E j \in DOMAIN Manifest :
         i < j /\ Has("push", "all", i, 1) /\ Has("push", "all", j, 0)

\* C10: in cut-stable-release an entry whose origin/master and origin/stable
\* are the same commit is neither merged nor pushed and the next entry is
\* processed; an entry whose tips differ is merged with --no-ff and its push
\* is issued only directly after that merge succeeded.
C10_SkipWhenReleased ==
    cmd = "cut_stable_release" =>
        \A i \in DOMAIN CutManifest :
          /\ CutManifest[i].master = CutManifest[i].stable =>
               /\ CallsOf("merge-no-ff", "all", i) = {}
               /\ CallsOf("push", "all", i) = {}
               /\ Has("rev-parse-stable", "all", i, 0) =>
                    (idx > i \/ (idx = i /\ pc = "cs_compare"))
          /\ \A k \in CallsOf("push", "all", i) :
               k > 1 /\ calls[k - 1] = Call("merge-no-ff", "all", i, 0)
          /\ (CutManifest[i].master # CutManifest[i].stable
                /\ Has("rev-parse-stable", "all", i, 0) /\ idx > i) =>
               Has("merge-no-ff", "all", i, 0) /\ Has("push", "all", i, 0)

C10_Witness ==
    /\ cmd = "cut_stable_release"
    /\ outcome = "returned"
    /\ \E i, j \in DOMAIN CutManifest :
         /\ i < j
         /\ CutManifest[i].master = CutManifest[i].stable
         /\ Has("rev-parse-stable", "all", i, 0)
         /\ Has("push", "all", j, 0)

\* list-resources of the release recorded as n: the call before the release
Query(n) == calls[released[n].at - 1]

\* C11: every release is issued for the identifier resolved at the source
\* channel, and its resource arguments are the (name, revision) pairs the
\* source channel listed: one --resource name-revision per listed resource, in
\* the listed order, nothing added, dropped or altered.
C11_ReleaseReplaysSource ==
    \A n \in DOMAIN released :
        LET r == released[n]
        IN  /\ calls[r.at] = Call("release", r.l, r.i, 0)
            /\ Query(n).op = "list-resources" /\ Query(n).i = r.i
            /\ r.id = store[from_channel][r.l][r.i].id
            /\ (Query(n).rc = 0 /\ (r.run = 1 \/ from_channel # to_channel)) =>
                  r.listed = ListOf(r.l)[r.i].published
            /\ Len(r.args) = Len(r.listed)
            /\ \A k \in DOMAIN r.listed :
                  r.args[k] = <<"--resource",
                                r.listed[k].name \o "-" \o ToString(r.listed[k].revision)>>

C11_Witness ==
    /\ cmd = "promote"
    /\ outcome = "returned"
    /\ \E n \in DOMAIN released :
         released[n].args = <<<<"--resource", "b-12">>, <<"--resource", "a-1">>>>

\* C12: a resource query that fails with exit code 1 or lists nothing is not
\* an error: the entry is released with no resource argument, and the
\* remaining entries are promoted, so a run that returns released every entry.
C12_NoResourcesIsNoError ==
    /\ \A n \in DOMAIN released :
         (Query(n).rc = 1 \/ released[n].listed = <<>>) => released[n].args = <<>>
    /\ \A k \in DOMAIN calls :
         (/\ calls[k].op = "list-resources"
          /\ calls[k].l \in {"charm", "bundle"}
          /\ calls[k].rc \in {0, 1}) =>
            IF k = Len(calls)
            THEN At("pr_release") /\ idx = calls[k].i
            ELSE calls[k + 1].op = "release" /\ calls[k + 1].i = calls[k].i
    /\ (cmd = "promote" /\ outcome = "returned") =>
         \A u \in 1..invocations : \A i \in DOMAIN charm_list :
            \E n \in DOMAIN released : released[n].run = u /\ released[n].i = i

C12_Witness ==
    /\ cmd = "promote"
    /\ outcome = "returned"
    /\ \E n, m \in DOMAIN released :
         /\ n < m
         /\ Query(n).rc = 1
         /\ released[n].args = <<>>
         /\ ListOf("charm")[released[n].i].published # <<>>
         /\ released[m].args # <<>>

Resolved(l, i) ==
    {k \in DOMAIN ListOf(l)[i].resources :
        /\ ListOf(l)[i].resources[k].type = "oci-image"
        /\ ListOf(l)[i].resources[k].src # ""}

\* C14: the image set _push resolves is exactly the resources of type
\* oci-image with a non-empty upstream source; every other resource is skipped
\* without error, and the arguments of charm push are one --resource
\* name=source pair per resolved image and nothing else.
C14_PushArgsAreImages ==
    /\ \A n \in DOMAIN pushes :
         LET p == pushes[n]
             rs == ListOf(p.l)[p.i].resources
         IN  /\ Len(p.args) = 2 * Cardinality(Resolved(p.l, p.i))
             /\ \A k \in Resolved(p.l, p.i) :
                  \E j \in 1..Cardinality(Resolved(p.l, p.i)) :
                     /\ p.args[2 * j - 1] = "--resource"
                     /\ p.args[2 * j] = rs[k].name \o "=" \o rs[k].src
             /\ \A k, k2 \in Resolved(p.l, p.i) : \A j, j2 \in DOMAIN p.args :
                  (/\ k < k2
                   /\ p.args[j] = rs[k].name \o "=" \o rs[k].src
                   /\ p.args[j2] = rs[k2].name \o "=" \o rs[k2].src) => j < j2
    /\ \A k \in DOMAIN calls :
         calls[k].op = "docker-pull" =>
            calls[k].f <= Cardinality(Resolved(calls[k].l, calls[k].i))
    /\ pc = "ps_push" => pidx = Cardinality(Resolved(lst, idx)) + 1

C14_Witness ==
    /\ \E n \in DOMAIN pushes :
         pushes[n].l = "charm" /\ pushes[n].args = <<"--resource", "img=x:1">>
    /\ \E n \in DOMAIN pushes :
         /\ pushes[n].l = "bundle"
         /\ pushes[n].args = <<"--resource", "one=x:1", "--resource", "two=z:3">>

IsArtifact(c) == c.l \in {"charm", "bundle"}

\* C15: every resolved image is fetched before charm push is issued; a failed
\* fetch is fatal and is not retried: it is the last call of the run, so no
\* further fetch, no push and no charm set follows for the artifact.
C15_FetchBeforePush ==
    /\ \A k \in DOMAIN calls :
         (calls[k].op = "push" /\ IsArtifact(calls[k])) =>
            \A j \in 1..Cardinality(Resolved(calls[k].l, calls[k].i)) :
               \E h \in 1..(k - 1) :
                  calls[h] = FileCall("docker-pull", calls[k].l, calls[k].i, j, 0)
    /\ \A k \in DOMAIN calls :
         (calls[k].op = "docker-pull" /\ calls[k].rc # 0) =>
            /\ k = Len(calls)
            /\ outcome = "ErrorReturnCode"
            /\ \A h \in 1..(k - 1) : calls[h] # [calls[k] EXCEPT !.rc = 0]
    /\ \A k, h \in DOMAIN calls :
         (/\ calls[k].op = "docker-pull" /\ calls[h].op = "docker-pull"
          /\ calls[k].l = calls[h].l /\ calls[k].i = calls[h].i
          /\ calls[k].f = calls[h].f) => k = h

C15_Witness ==
    /\ outcome = "ErrorReturnCode"
    /\ LastCall = FileCall("docker-pull", "bundle", idx, 2, 1)
    /\ \E k \in DOMAIN calls : calls[k].op = "push" /\ calls[k].l = "charm"

Sequential == {"pull_layers", "promote", "cut_stable_release", "tag_stable"}

\* the manifest of the command, as the indices of its entries
Entries ==
    CASE cmd = "pull_layers" -> DOMAIN layer_list
      [] cmd = "promote" -> DOMAIN charm_list
      [] cmd = "cut_stable_release" -> DOMAIN CutManifest
      [] OTHER -> DOMAIN Manifest

\* the entry has a tag of the filter, or no tag at all
Passes(e) == ~(e.has_tags /\ e.tags # {} /\ e.tags \cap filter_by_tag = {})

\* the entries the command has work to do for
Eligible(i) ==
    CASE cmd = "pull_layers" -> layer_list[i].name # "layer:index"
      [] cmd = "promote" -> TRUE
      [] cmd = "cut_stable_release" ->
            ~dry_run /\ CutManifest[i].needs_stable /\ Passes(CutManifest[i])
      [] cmd = "tag_stable" ->
            ~dry_run /\ Manifest[i].needs_tagging /\ Passes(Manifest[i])
      [] OTHER -> ~dry_run /\ ~Manifest[i].same_repo

\* the first external call of an entry's workflow
StartOp ==
    CASE cmd = "pull_layers" -> "pull-source"
      [] cmd = "promote" -> "show"
      [] OTHER -> "clone"

\* the starts of the workflow of entry i (a download after a sleep is a retry)
Starts(i) ==
    {k \in DOMAIN calls :
        /\ calls[k].op = StartOp
        /\ calls[k].i = i
        /\ (k = 1 \/ calls[k - 1].op # "sleep")}

\* C16 as stated: when an invocation of pull-layers, promote,
\* cut-stable-release, tag-stable or forks ends, every eligible entry has been
\* processed exactly once.
C16_ExactlyOnce ==
    /\ (cmd \in Sequential /\ Ended) =>
          \A i \in Entries :
             Eligible(i) => Cardinality(Starts(i)) = (IF cmd = "promote" THEN run ELSE 1)
    /\ (cmd = "forks" /\ Ended /\ ~dry_run) =>
          \A i \in DOMAIN gr : gr[i].res \in {"ok", "Exception", "SystemExit"}

\* C16 as amended: no entry's workflow is started twice in one invocation and
\* no ineligible entry's workflow is started; an invocation that returns has
\* processed every eligible entry once; an invocation of a sequential command
\* that a fatal error ends has processed every eligible entry before the
\* failing one and none after it; forks queues every eligible entry once and,
\* however it ends, has run every queued item once.
C16_OnceUnlessAborted ==
    /\ cmd \in Sequential =>
          \A i \in Entries :
             /\ Cardinality(Starts(i)) <= run
             /\ ~Eligible(i) => Starts(i) = {}
             /\ (outcome = "returned" /\ Eligible(i)) =>
                   Cardinality(Starts(i)) = invocations
             /\ (Ended /\ outcome # "returned" /\ Eligible(i) /\ i < idx) =>
                   Cardinality(Starts(i)) = run
             /\ (Ended /\ outcome # "returned" /\ i > idx) =>
                   Cardinality(Starts(i)) = run - 1
    /\ cmd = "forks" =>
          /\ Injective(repos_to_process)
          /\ pc # "fk_queue" =>
                {repos_to_process[n] : n \in DOMAIN repos_to_process}
                   = {i \in DOMAIN Manifest : ~Manifest[i].same_repo}
          /\ Len(gr) <= Len(repos_to_process)
          /\ \A n \in DOMAIN gr : gr[n].k <= Len(GitSteps)
          /\ dry_run => gr = <<>>
          /\ (Ended /\ ~dry_run) =>
                /\ Len(gr) = Len(repos_to_process)
                /\ \A n \in DOMAIN gr : gr[n].res \in {"ok", "Exception", "SystemExit"}

C16_Witness ==
    /\ cmd = "tag_stable"
    /\ outcome = "ErrorReturnCode"
    /\ idx = 1
    /\ Len(Manifest) = 2
    /\ Eligible(2)
    /\ Starts(2) = {}
    /\ ~Manifest[1].has_tags

\* C17: the forks batch call ends, by returning or by raising, only after
\* every submitted work item has completed: no item is pending or running
\* once the call has ended.
C17_EndsAfterAllItems ==
    (cmd = "forks" /\ Ended) =>
        /\ Len(gr) = Len(repos_to_process) \/ dry_run
        /\ \A n \in DOMAIN gr : gr[n].res \notin {"queued", "running"}

C17_Witness ==
    /\ cmd = "forks"
    /\ outcome = "SystemExit:1"
    /\ \E n \in DOMAIN gr : n \notin seen /\ gr[n].res = "Exception"

\* the position of git merge upstream/master among the commands of __run_git
MergeStep == CHOOSE n \in DOMAIN GitSteps : GitSteps[n] = "merge"

C19_EnvCheckedFirst ==
    (cmd \in {"pull_layers", "build"} /\ ~(EnvVars \subseteq environ)) =>
        /\ calls = <<>>
        /\ pushes = <<>> /\ released = <<>>
        /\ Ended => outcome = "SystemExit:env"
        /\ pc \in {"pl_env", "b_env", "end"}

C19_Witness ==
    /\ cmd = "build"
    /\ outcome = "SystemExit:env"
    /\ "WORKSPACE" \notin environ
    /\ charm_list # <<>>

\* C20: when the resource spec has no entry, or an empty one, for the entity,
\* _resource ends with the fatal resource-spec error and nothing was done for
\* the entity: no charm show, no list-resources, no builder run, no attach.
C20_NoSpecNoWork ==
    /\ \A k \in DOMAIN calls : calls[k].l = "resource" => Fragment(calls[k].i) # {}
    /\ pc \in {"rs_show", "rs_list", "rs_builder", "rs_files", "rs_while", "rs_attach"} =>
          Fragment(charm_entity) # {}
    /\ outcome = "SystemExit:resource_spec" =>
          /\ Fragment(charm_entity) = {}
          /\ LastCall = Read("resource-spec")
          /\ \A k \in DOMAIN calls : ~(calls[k].l = "resource" /\ calls[k].i = charm_entity)

C20_Witness ==
    /\ cmd = "build"
    /\ outcome = "SystemExit:resource_spec"
    /\ pushes # <<>>

C21_WitnessNormal ==
    \E n \in DOMAIN tagops : tagops[n] = [op |-> "push", i |-> 1, tag |-> "ck-1.14-100"]

\* the manifest of a sequential command in its declared order: the list of
\* the command line, or the lists of the command line one after the other
Declared ==
    CASE cmd = "pull_layers" -> layer_list
      [] cmd = "promote" -> charm_list
      [] cmd = "cut_stable_release" -> layer_list \o charm_list \o ancillary_list
      [] cmd = "tag_stable" -> layer_list \o charm_list
      [] OTHER -> <<>>

\* the k-th call is a command issued for a manifest entry
Work(k) == calls[k].l # "file"

\* c is a call an entry's workflow can end with before the next entry starts
Final(c) ==
    CASE cmd = "pull_layers" -> c.op = "checkout" /\ c.rc = 0
      [] cmd = "promote" -> c.op = "release" /\ c.rc = 0
      [] cmd = "cut_stable_release" -> c.op \in {"push", "rev-parse-stable"} /\ c.rc = 0
      [] cmd = "tag_stable" -> c.op = "push" \/ (c.op = "tag" /\ c.rc # 0)
      [] OTHER -> FALSE

\* C22: pull-layers, promote, cut-stable-release and tag-stable process the
\* manifest in its declared order: the calls of an entry are for an entry of
\* the declared list that is not skipped, the first call of the next entry
\* follows the last step of the entry before it, entry indices only grow, and
\* cut-stable-release works on layers, then charms, then ancillary entries.
\* (A call with no later read of the manifest is of the current invocation
\* and so of an entry up to the one the loop is at.)
C22_DeclaredOrder ==
    cmd \in Sequential =>
       /\ \A k \in DOMAIN calls :
             Work(k) =>
                /\ calls[k].i \in DOMAIN Declared
                /\ (cmd # "promote" \/ \A h \in k..Len(calls) : Work(h)) =>
                      calls[k].i <= idx
                /\ cmd = "pull_layers" => Declared[calls[k].i].name # "layer:index"
                /\ cmd = "cut_stable_release" =>
                      /\ Declared[calls[k].i].needs_stable
                      /\ Passes(Declared[calls[k].i])
                /\ cmd = "tag_stable" =>
                      /\ Declared[calls[k].i].needs_tagging
                      /\ Passes(Declared[calls[k].i])
       /\ \A k \in 2..Len(calls) :
             (Work(k) /\ Work(k - 1) /\ calls[k].i # calls[k - 1].i) =>
                /\ calls[k].i > calls[k - 1].i
                /\ calls[k].op = StartOp
                /\ Final(calls[k - 1])
       /\ (cmd = "cut_stable_release" /\ pc \in {"cs_rev_stable", "cs_compare"}) =>
             git_rev_master = Declared[idx].master

C22_Witness ==
    /\ cmd = "cut_stable_release"
    /\ outcome = "returned"
    /\ Len(layer_list) = 1
    /\ Len(charm_list) = 1
    /\ layer_list[1].master # charm_list[1].master
    /\ \E k \in DOMAIN calls :
         /\ calls[k] = Call("push", "all", 1, 0)
         /\ calls[k + 1] = Call("clone", "all", 2, 0)
         /\ LastCall = Call("rev-parse-stable", "all", 2, 0)

\* the calls of build's charm and bundle steps: clone, build, proof, push,
\* set, attach, show, list-resources and release
BuildSteps == {k \in DOMAIN calls : calls[k].l \in {"charm", "bundle", "bundle-repo", "resource"}}

\* layer i was downloaded and then checked out before the k-th call
Pulled(i, k) ==
    \E d, c \in 1..(k - 1) :
       /\ d < c
       /\ calls[d] = Call("pull-source", "layer", i, 0)
       /\ calls[c] = Call("checkout", "layer", i, 0)

\* the layer pull ended the run
PullFatal ==
    \/ outcome \in {"SystemExit:retries", "SystemExit:unknown_layer"}
    \/ outcome = "ErrorReturnCode" /\ LastCall.l = "layer"

\* C23: build issues its first charm step only after every layer of the
\* layer list but layer:index was downloaded and checked out, and a layer
\* pull that ends the run (retries used up, the second attempt failed, an
\* unknown layer type, a failed checkout) leaves no charm or bundle cloned,
\* built, pushed or released.
C23_NoBuildOnPartialPull ==
    cmd = "build" =>
       /\ \A k \in BuildSteps :
             \A i \in DOMAIN layer_list :
                layer_list[i].name # "layer:index" => Pulled(i, k)
       /\ PullFatal => (BuildSteps = {} /\ pushes = <<>> /\ released = <<>>)
       /\ (pushes # <<>> \/ released # <<>>) => BuildSteps # {}

C23_Witness ==
    /\ cmd = "build"
    /\ outcome = "ErrorReturnCode"
    /\ calls = <<Read("charm-list"), Read("layer-list"),
                 Call("pull-source", "layer", 1, 1), Call("sleep", "layer", 1, 0),
                 Call("pull-source", "layer", 1, 2)>>
    /\ charm_list # <<>>
    /\ charm_list[1].has_tags
    /\ Selected(charm_list[1])
    /\ ~dry_run

\* the call op of list l for entry i succeeded before the k-th call
DoneBefore(op, l, i, k) ==
    \E h \in 1..(k - 1) : calls[h].op = op /\ calls[h].l = l /\ calls[h].i = i /\ calls[h].rc = 0

\* a step of a charm's build failed
StepFailed ==
    \E k \in DOMAIN calls :
       /\ calls[k].l \in {"charm", "resource"}
       /\ calls[k].op \in {"clone", "build", "proof", "rev-parse-head", "docker-pull",
                           "push", "set", "builder", "attach"}
       /\ calls[k].rc # 0

NeedsMerge(i) == Eligible(i) /\ Declared[i].master # Declared[i].stable

\* C25: in cut-stable-release a failed clone, rev-parse, config, checkout,
\* merge or push is the last call of the run and ends it with the error; the
\* entries before the failing one that had a master to merge have their push
\* to stable done and get no further call, and no entry after the failing one
\* gets any call.
C25_FailureEndsRun ==
    cmd = "cut_stable_release" =>
       /\ \A k \in DOMAIN calls :
             calls[k].rc # 0 =>
                /\ k = Len(calls)
                /\ pc = "end"
                /\ outcome = "ErrorReturnCode"
                /\ calls[k].i = idx
       /\ outcome = "ErrorReturnCode" =>
             /\ LastCall.rc # 0
             /\ \A i \in DOMAIN Declared :
                   /\ (i < idx /\ NeedsMerge(i)) =>
                         \E h \in DOMAIN calls :
                            /\ calls[h] = Call("push", "all", i, 0)
                            /\ \A g \in (h + 1)..Len(calls) : calls[g].i # i
                   /\ i > idx => \A h \in DOMAIN calls : calls[h].i # i
       /\ Ended => outcome \in {"returned", "ErrorReturnCode"}

C25_Witness ==
    /\ cmd = "cut_stable_release"
    /\ outcome = "ErrorReturnCode"
    /\ Len(Declared) = 2
    /\ idx = 2
    /\ LastCall = Call("merge-no-ff", "all", 2, 1)
    /\ \E h \in DOMAIN calls : calls[h] = Call("push", "all", 1, 0)

====
